---- MODULE Spec2Model ----
(***************************************************************************)
(* Visited Link Highlighter: the URL normalizer, the background service    *)
(* worker's history matcher and the content script's scan coordinator.     *)
(*                                                                         *)
(* A URL string is modelled by the record of its written parts             *)
(*   [sch, host, path, hasQ, q, hasF, f]                                   *)
(* (scheme as written, host as written, path, whether a '?' is present,    *)
(* the '&'-separated query segments, whether a '#' is present, the         *)
(* fragment).  Two strings are equal iff their records are equal.  The     *)
(* URL parser, URLSearchParams and the URL serializer are modelled by what *)
(* they do to these parts.                                                 *)
(***************************************************************************)
EXTENDS Integers, Sequences, FiniteSets

VARIABLES
    \* ---- normalizer harness (pure function under test)
    nUrl, nIgn, nOut, nOut2, nVar, nVarKind, nVarOut, nStage,
    \* ---- background service worker and its environment
    config,         \* chrome.storage.sync: the stored configuration
    history,        \* chrome.history: the set of visited URL strings
    req,            \* per tab: the handleCheckVisited invocation in progress
    resp,           \* per tab: the last response passed to sendResponse
    historyCache,   \* the keys of the historyCache Map
    cfgMsgs,        \* configUpdated messages on their way to the background
    bgSeen,         \* newest configuration change the background was told of
    notifyPending,  \* notifyAllTabs calls waiting for chrome.tabs.query
    refreshMsgs,    \* per tab: refreshHighlights messages on their way
    \* ---- content script of one page context and its document
    loaded,         \* the content script has run its initialisation
    dom,            \* the a[href] elements attached to the document
    marked,         \* the elements carrying HIGHLIGHT_CLASS
    textColor,      \* the --vlh-text-color custom property
    isProcessing,   \* content.js isProcessing
    debounceTimer,  \* content.js debounceTimer and the timeout behind it
    observer,       \* content.js observer
    runtimeId,      \* chrome.runtime.id is present
    cycles,         \* the processLinks invocations suspended at an await
    lastCall,       \* how the latest processLinks call left its first part
    overlap,        \* a cycle scanned or applied during an unapplied one
    lastClick       \* the latest click handled by handleLinkClick

normVars == <<nUrl, nIgn, nOut, nOut2, nVar, nVarKind, nVarOut, nStage>>

bgVars == <<config, history, req, resp, historyCache, cfgMsgs, bgSeen,
            notifyPending, refreshMsgs>>

pageVars == <<loaded, dom, marked, textColor, isProcessing, debounceTimer,
              observer, runtimeId, cycles, lastCall, overlap, lastClick>>

\* what the background's handlers leave alone
outsideBg == <<nUrl, nIgn, nOut, nOut2, nVar, nVarKind, nVarOut, nStage,
               loaded, dom, marked, textColor, isProcessing, debounceTimer,
               observer, runtimeId, cycles, lastCall, overlap, lastClick>>

\* what the content script's handlers leave alone
outsidePage == <<nUrl, nIgn, nOut, nOut2, nVar, nVarKind, nVarOut, nStage,
                 config, history, req, resp, historyCache, cfgMsgs, bgSeen,
                 notifyPending, refreshMsgs>>

vars == <<nUrl, nIgn, nOut, nOut2, nVar, nVarKind, nVarOut, nStage,
          config, history, req, resp, historyCache, cfgMsgs, bgSeen,
          notifyPending, refreshMsgs,
          loaded, dom, marked, textColor, isProcessing, debounceTimer,
          observer, runtimeId, cycles, lastCall, overlap, lastClick>>

(***************************************************************************)
(* Bounds                                                                  *)
(***************************************************************************)
\* most query segments of a generated URL string
MaxParams == 3
\* most candidate URLs in one checkVisited message
MaxCands == 2
\* most configuration saves in one run
MaxSaves == 1
\* most a[href] elements of the page
MaxAnchors == 3
\* most processLinks invocations suspended at the same time
MaxCycles == 2
\* most refreshHighlights messages on their way to one tab
MaxQueued == 3

(***************************************************************************)
(* Strings                                                                 *)
(***************************************************************************)
\* String.prototype.toLowerCase on the strings of the model
toLowerCase(s) ==
    CASE s = "UTM_Source" -> "utm_source"
      [] s = "UTM_SOURCE" -> "utm_source"
      [] s = "A"          -> "a"
      [] s = "HTTP"       -> "http"
      [] s = "HTTPS"      -> "https"
      [] s = "X.com"      -> "x.com"
      [] OTHER            -> s

\* position of a parameter name in UTF-16 code unit order ('U' < 'a' < 'u')
CodeUnitRank(n) ==
    CASE n = ""           -> 0
      [] n = "A"          -> 1
      [] n = "UTM_Source" -> 2
      [] n = "a"          -> 3
      [] n = "utm_source" -> 4
      [] OTHER            -> 5

\* a written URL string
Str(sch, host, path, hasQ, q, hasF, f) ==
    [sch |-> sch, host |-> host, path |-> path,
     hasQ |-> hasQ, q |-> q, hasF |-> hasF, f |-> f]

\* a written query segment "n=v" (eq) or "n" (no '=')
Seg(n, v) == [n |-> n, eq |-> TRUE, v |-> v]
BareSeg(n) == [n |-> n, eq |-> FALSE, v |-> ""]

(***************************************************************************)
(* The URL API (new URL, searchParams, hash, toString)                     *)
(***************************************************************************)
\* the protocol list with ftp: added
ProtocolsWithFtp == {"http:", "https:", "ftp:"}

VALID_PROTOCOLS == {"http:", "https:"}

\* the schemes the URL standard calls special, among those of the model
SpecialSchemes == {"http", "https", "ftp"}

\* protocol getter: the lower-cased scheme followed by ':'
Protocol(sch) ==
    CASE toLowerCase(sch) = "http"       -> "http:"
      [] toLowerCase(sch) = "https"      -> "https:"
      [] toLowerCase(sch) = "ftp"        -> "ftp:"
      [] toLowerCase(sch) = "javascript" -> "javascript:"
      [] toLowerCase(sch) = "chrome"     -> "chrome:"
      [] OTHER                           -> "other:"

\* new URL(url) throws: no scheme, or a special scheme without a host
URLThrows(url) ==
    \/ url.sch = "none"
    \/ toLowerCase(url.sch) \in SpecialSchemes /\ url.host = ""

\* application/x-www-form-urlencoded parsing of the query segments:
\* a segment without '=' has the empty value
RECURSIVE ParseQuery(_)
ParseQuery(q) ==
    IF q = <<>> THEN <<>>
    ELSE <<[n |-> Head(q).n, v |-> IF Head(q).eq THEN Head(q).v ELSE ""]>>
         \o ParseQuery(Tail(q))

\* application/x-www-form-urlencoded serializing: every pair is written n=v
RECURSIVE SerializeList(_)
SerializeList(l) ==
    IF l = <<>> THEN <<>>
    ELSE <<Seg(Head(l).n, Head(l).v)>> \o SerializeList(Tail(l))

\* new URL(url) for a string that parses: scheme lower-cased; for a special
\* scheme the host is lower-cased and an empty path becomes "/"
URL(url) ==
    LET special == toLowerCase(url.sch) \in SpecialSchemes IN
    [protocol |-> Protocol(url.sch),
     scheme   |-> toLowerCase(url.sch),
     hostname |-> IF special THEN toLowerCase(url.host) ELSE url.host,
     pathname |-> IF special /\ url.path = "" THEN "/" ELSE url.path,
     hasQuery |-> url.hasQ,
     query    |-> url.q,
     list     |-> ParseQuery(url.q),
     hasFrag  |-> url.hasF,
     fragment |-> url.f]

\* URLSearchParams update steps: the URL's query becomes the serialized list,
\* or null when the list is empty
Update(urlObj, l) ==
    [urlObj EXCEPT !.list = l,
                   !.hasQuery = (l # <<>>),
                   !.query = SerializeList(l)]

\* searchParams.keys()
RECURSIVE Keys(_)
Keys(l) == IF l = <<>> THEN <<>> ELSE <<Head(l).n>> \o Keys(Tail(l))

\* searchParams.delete(key): removes every pair named exactly key
RECURSIVE RemoveNamed(_, _)
RemoveNamed(l, key) ==
    IF l = <<>> THEN <<>>
    ELSE (IF Head(l).n = key THEN <<>> ELSE <<Head(l)>>)
         \o RemoveNamed(Tail(l), key)

SearchParamsDelete(urlObj, key) == Update(urlObj, RemoveNamed(urlObj.list, key))

\* stable insertion of a pair behind every pair whose name is not greater
RECURSIVE InsertByName(_, _)
InsertByName(p, s) ==
    IF s = <<>> THEN <<p>>
    ELSE IF CodeUnitRank(Head(s).n) > CodeUnitRank(p.n)
         THEN <<p>> \o s
         ELSE <<Head(s)>> \o InsertByName(p, Tail(s))

RECURSIVE SortByName(_, _)
SortByName(l, acc) ==
    IF l = <<>> THEN acc ELSE SortByName(Tail(l), InsertByName(Head(l), acc))

\* a sort() that was left out: the list keeps its order
SearchParamsSortOmitted(urlObj) == Update(urlObj, urlObj.list)

\* searchParams.sort(): stable sort by name, then the update steps
SearchParamsSort(urlObj) == Update(urlObj, SortByName(urlObj.list, <<>>))

\* hash getter: "" for a null or empty fragment, else '#' and the fragment
Hash(urlObj) ==
    IF ~urlObj.hasFrag \/ urlObj.fragment = "" THEN ""
    ELSE CASE urlObj.fragment = "top" -> "#top"
           [] OTHER                   -> "#frag"

\* hash setter with the empty string: the fragment becomes null
SetHashEmpty(urlObj) == [urlObj EXCEPT !.hasFrag = FALSE, !.fragment = ""]

\* toString(): the URL serializer
toString(urlObj) ==
    Str(urlObj.scheme, urlObj.hostname, urlObj.pathname,
        urlObj.hasQuery, urlObj.query, urlObj.hasFrag, urlObj.fragment)

(***************************************************************************)
(* UrlNormalizer                                                           *)
(***************************************************************************)
\* new Set(ignoreParams.map(p => p.toLowerCase()))
IgnoreSet(ignoreParams) ==
    {toLowerCase(ignoreParams[i]) : i \in 1..Len(ignoreParams)}

\* the membership test without lower-casing the key
IsIgnoredCaseSensitive(key, ignoreSet) == key \in ignoreSet

\* ignoreSet.has(key.toLowerCase())
IsIgnored(key, ignoreSet) == toLowerCase(key) \in ignoreSet

\* the keys collected for deletion, in iteration order
RECURSIVE CollectKeys(_, _)
CollectKeys(keys, ignoreSet) ==
    IF keys = <<>> THEN <<>>
    ELSE (IF IsIgnored(Head(keys), ignoreSet) THEN <<Head(keys)>> ELSE <<>>)
         \o CollectKeys(Tail(keys), ignoreSet)

\* a loop that stops at the first ignored key
KeysToDeleteFirstOnly(urlObj, ignoreSet) ==
    LET all == CollectKeys(Keys(urlObj.list), ignoreSet) IN
    IF all = <<>> THEN <<>> ELSE <<Head(all)>>

\* keysToDelete after the for loop over searchParams.keys()
KeysToDelete(urlObj, ignoreSet) == CollectKeys(Keys(urlObj.list), ignoreSet)

\* keysToDelete.forEach(key => urlObj.searchParams.delete(key))
RECURSIVE DeleteAll(_, _)
DeleteAll(urlObj, keys) ==
    IF keys = <<>> THEN urlObj
    ELSE DeleteAll(SearchParamsDelete(urlObj, Head(keys)), Tail(keys))

normalizeUrl(url, ignoreParams) ==
    IF URLThrows(url) THEN url
    ELSE LET urlObj == URL(url) IN
         IF urlObj.protocol \notin VALID_PROTOCOLS THEN url
         ELSE LET u1 == IF Len(ignoreParams) > 0
                        THEN DeleteAll(urlObj,
                                 KeysToDelete(urlObj, IgnoreSet(ignoreParams)))
                        ELSE urlObj
                  u2 == SearchParamsSort(u1)
                  u3 == IF Hash(u2) = "#" THEN SetHashEmpty(u2) ELSE u2
              IN toString(u3)

extractDomain(url) == IF URLThrows(url) THEN "" ELSE URL(url).hostname

\* the validity test without the protocol check
isValidHttpUrlAnyScheme(url) == ~URLThrows(url)

isValidHttpUrl(url) ==
    IF URLThrows(url) THEN FALSE ELSE URL(url).protocol \in VALID_PROTOCOLS


(***************************************************************************)
(* Background service worker: configuration, history store, messages       *)
(***************************************************************************)
Tabs == {1, 2}

DEFAULT_CONFIG ==
    [enabled |-> TRUE, ignoreParams |-> <<>>,
     highlightTextColor |-> "#C58AF9", ver |-> 0]

\* chrome.history.search maxResults
maxResults == 10000

\* URL strings of the pages and of the history store
U_a      == Str("https", "x.com", "/a", FALSE, <<>>, FALSE, "")
U_aUtm   == Str("https", "x.com", "/a", TRUE, <<Seg("utm_source", "1")>>, FALSE, "")
U_yBA    == Str("https", "y.com", "/a", TRUE,
                <<Seg("utm_source", "2"), Seg("a", "1")>>, FALSE, "")
U_yAB    == Str("https", "y.com", "/a", TRUE,
                <<Seg("a", "1"), Seg("utm_source", "2")>>, FALSE, "")
U_ftp    == Str("ftp", "x.com", "/a", FALSE, <<>>, FALSE, "")
U_js     == Str("javascript", "", "void(0)", FALSE, <<>>, FALSE, "")

CandUrls == {U_a, U_aUtm, U_yBA, U_ftp, U_js}
HistUrls == {U_a, U_yAB, U_ftp}

\* the hostnames of the candidate URLs
Hostnames == {"x.com", "y.com"}

CandLists == UNION {[1..n -> CandUrls] : n \in 0..MaxCands}

\* message.urls || []
NoRequest ==
    [pc |-> "idle", urls |-> <<>>, cfg |-> DEFAULT_CONFIG,
     groups |-> <<>>, queries |-> <<>>, outcome |-> <<>>, pending |-> {},
     visited |-> <<>>, startSeen |-> 0, startHist |-> 0, staleResult |-> FALSE]

NoResponse ==
    [has |-> FALSE, visitedUrls |-> <<>>, config |-> DEFAULT_CONFIG,
     error |-> FALSE]

\* the state in which the background part is not exercised
BgQuiet ==
    /\ config = DEFAULT_CONFIG
    /\ history = {}
    /\ req = [t \in Tabs |-> NoRequest]
    /\ resp = [t \in Tabs |-> NoResponse]
    /\ historyCache = {}
    /\ cfgMsgs = {}
    /\ bgSeen = 0
    /\ notifyPending = 0
    /\ refreshMsgs = [t \in Tabs |-> 0]

\* the elements of a sequence
Range(s) == {s[i] : i \in 1..Len(s)}

\* Set.add on an insertion-ordered Set
SetAdd(s, x) == IF x \in Range(s) THEN s ELSE Append(s, x)

\* the history items whose URL text contains the search text; in the strings
\* of the model only the host part can contain a hostname
TextMatches(text) == {h \in history : h.host = text}

\* chrome.history.search({text: domain, maxResults: 10000, startTime: 0}):
\* the possible result lists, at most maxResults items
SearchResults(domain) ==
    LET m == TextMatches(domain) IN
    IF Cardinality(m) <= maxResults THEN {m}
    ELSE {r \in SUBSET m : Cardinality(r) = maxResults}

\* a stored configuration served from the tab's previous response
GetConfigReusingTabState(t) ==
    IF resp[t].has THEN resp[t].config ELSE config

\* getConfig(): chrome.storage.sync.get(DEFAULT_CONFIG, resolve)
getConfig(t) == config

\* the enabled test left out
FeatureOffIgnored(cfg) == FALSE

\* !config.enabled
FeatureOff(cfg) == ~cfg.enabled

\* the first loop of checkVisitedUrls: domainGroups after the given urls
RECURSIVE GroupLoop(_, _)
GroupLoop(urls, domainGroups) ==
    IF urls = <<>> THEN domainGroups
    ELSE LET url == Head(urls) IN
         IF ~isValidHttpUrl(url) THEN GroupLoop(Tail(urls), domainGroups)
         ELSE LET domain == extractDomain(url) IN
              IF domain = "" THEN GroupLoop(Tail(urls), domainGroups)
              ELSE GroupLoop(Tail(urls),
                     [d \in DOMAIN domainGroups \cup {domain} |->
                        IF d = domain
                        THEN (IF d \in DOMAIN domainGroups
                              THEN Append(domainGroups[d], url)
                              ELSE <<url>>)
                        ELSE domainGroups[d]])

\* the loop with the validity test that accepts every scheme
GroupLoopAnyScheme(urls) ==
    LET RECURSIVE Loop(_, _)
        Loop(us, g) ==
            IF us = <<>> THEN g
            ELSE LET url == Head(us) IN
                 IF ~isValidHttpUrlAnyScheme(url) \/ extractDomain(url) = ""
                 THEN Loop(Tail(us), g)
                 ELSE LET domain == extractDomain(url) IN
                      Loop(Tail(us),
                        [d \in DOMAIN g \cup {domain} |->
                           IF d = domain
                           THEN (IF d \in DOMAIN g THEN Append(g[d], url)
                                 ELSE <<url>>)
                           ELSE g[d]])
    IN Loop(urls, <<>>)

\* domainGroups of checkVisitedUrls(urls, ignoreParams)
DomainGroups(urls) == GroupLoop(urls, <<>>)

\* one history query for every valid candidate URL
QueryPerUrl(urls, domainGroups) ==
    LET valid == SelectSeq(urls, LAMBDA u : isValidHttpUrl(u) /\ extractDomain(u) # "")
    IN [i \in 1..Len(valid) |-> extractDomain(valid[i])]

\* the second loop of checkVisitedUrls: the domains queryHistoryByDomain is
\* called with, one call per entry of domainGroups in the Map's insertion
\* order (an entry is inserted by the first URL of its group)
DomainQueries(urls, domainGroups) ==
    LET RECURSIVE Loop(_, _)
        Loop(us, domainQueries) ==
            IF us = <<>> THEN domainQueries
            ELSE LET domain == extractDomain(Head(us)) IN
                 IF /\ domain \in DOMAIN domainGroups
                    /\ domain \notin Range(domainQueries)
                    /\ Head(us) = Head(domainGroups[domain])
                 THEN Loop(Tail(us), Append(domainQueries, domain))
                 ELSE Loop(Tail(us), domainQueries)
    IN Loop(urls, <<>>)

\* the history URLs compared as stored, without normalizing them
NormalizedHistoryRaw(historyUrls, ignoreParams) == historyUrls

\* normalizedHistory of one domain query
NormalizedHistory(historyUrls, ignoreParams) ==
    {normalizeUrl(hUrl, ignoreParams) : hUrl \in historyUrls}

\* the normalized keys collected in place of the page URLs
RECURSIVE AddNormalizedMatches(_, _, _, _)
AddNormalizedMatches(visitedOriginalUrls, domainUrls, normalizedHistory, ignoreParams) ==
    IF domainUrls = <<>> THEN visitedOriginalUrls
    ELSE LET normalizedPageUrl == normalizeUrl(Head(domainUrls), ignoreParams)
         IN AddNormalizedMatches(
               IF normalizedPageUrl \in normalizedHistory
               THEN SetAdd(visitedOriginalUrls, normalizedPageUrl)
               ELSE visitedOriginalUrls,
               Tail(domainUrls), normalizedHistory, ignoreParams)

\* the then-handler of one domain query: the page URLs of the domain whose
\* normalized form is in the normalized history are added to the visited Set
RECURSIVE AddMatches(_, _, _, _)
AddMatches(visitedOriginalUrls, domainUrls, normalizedHistory, ignoreParams) ==
    IF domainUrls = <<>> THEN visitedOriginalUrls
    ELSE LET pageUrl == Head(domainUrls)
             normalizedPageUrl == normalizeUrl(pageUrl, ignoreParams)
         IN AddMatches(
               IF normalizedPageUrl \in normalizedHistory
               THEN SetAdd(visitedOriginalUrls, pageUrl)
               ELSE visitedOriginalUrls,
               Tail(domainUrls), normalizedHistory, ignoreParams)

\* sendResponse of a finished handleCheckVisited
Respond(t, r, visitedUrls, cfg, error) ==
    /\ req' = [req EXCEPT ![t] = [r EXCEPT !.pc = "done", !.pending = {}]]
    /\ resp' = [resp EXCEPT ![t] =
                  [has |-> TRUE, visitedUrls |-> visitedUrls,
                   config |-> cfg, error |-> error]]

\* onMessage 'checkVisited': handleCheckVisited starts and awaits getConfig()
CheckVisitedArrive(t, urls) ==
    /\ req[t].pc \in {"idle", "done"}
    /\ req' = [req EXCEPT ![t] =
                 [NoRequest EXCEPT !.pc = "getConfig", !.urls = urls,
                                   !.startSeen = bgSeen,
                                   !.startHist = Cardinality(history)]]
    /\ UNCHANGED <<config, history, resp, historyCache, cfgMsgs, bgSeen,
                   notifyPending, refreshMsgs>>
    /\ UNCHANGED outsideBg

\* handleCheckVisited after getConfig() resolved, the feature being off
ReceiveConfigDisabled(t) ==
    /\ req[t].pc = "getConfig"
    /\ LET cfg == getConfig(t)
           r == [req[t] EXCEPT !.cfg = cfg]
       IN /\ FeatureOff(cfg)
          /\ Respond(t, r, <<>>, cfg, FALSE)
    /\ UNCHANGED <<config, history, historyCache, cfgMsgs, bgSeen,
                   notifyPending, refreshMsgs>>
    /\ UNCHANGED outsideBg

\* handleCheckVisited after getConfig() resolved, the feature being on:
\* checkVisitedUrls groups the URLs and calls chrome.history.search once per
\* domain; the calls of the domains in thrown throw.  A thrown call rejects
\* its promise, Promise.all rejects and the catch block answers.
ReceiveConfigEnabled(t, thrown) ==
    /\ req[t].pc = "getConfig"
    /\ LET cfg == getConfig(t)
           groups == DomainGroups(req[t].urls)
           r == [req[t] EXCEPT
                   !.cfg = cfg, !.groups = groups,
                   !.queries = DomainQueries(req[t].urls, groups),
                   !.outcome = [d \in DOMAIN groups |->
                                  IF d \in thrown THEN "throw" ELSE "pending"],
                   !.pending = DOMAIN groups \ thrown]
       IN /\ ~FeatureOff(cfg)
          /\ thrown \subseteq DOMAIN groups
          /\ IF thrown # {}
             THEN Respond(t, r, <<>>, DEFAULT_CONFIG, TRUE)
             ELSE IF DOMAIN groups = {}
                  THEN Respond(t, r, <<>>, cfg, FALSE)
                  ELSE /\ req' = [req EXCEPT ![t] = [r EXCEPT !.pc = "queries"]]
                       /\ UNCHANGED resp
    /\ UNCHANGED <<config, history, historyCache, cfgMsgs, bgSeen,
                   notifyPending, refreshMsgs>>
    /\ UNCHANGED outsideBg

\* the callback of one chrome.history.search and the promise chain behind it;
\* stamp is the size of the history store the result was read from
QueryDone(t, domain, historyUrls, how, stamp) ==
    LET r0 == req[t]
        visited == AddMatches(r0.visited, r0.groups[domain],
                       NormalizedHistory(historyUrls, r0.cfg.ignoreParams),
                       r0.cfg.ignoreParams)
        r == [r0 EXCEPT !.visited = visited,
                        !.pending = r0.pending \ {domain},
                        !.outcome[domain] = how,
                        !.staleResult =
                            r0.staleResult \/ stamp < r0.startHist]
    IN IF r.pending = {}
       THEN Respond(t, r, visited, r0.cfg, FALSE)
       ELSE /\ req' = [req EXCEPT ![t] = r]
            /\ UNCHANGED resp

\* the search callback receives the result items
QueryCallbackResults(t, domain) ==
    /\ req[t].pc = "queries"
    /\ domain \in req[t].pending
    /\ \E results \in SearchResults(domain) : QueryDone(t, domain, results, "ok", Cardinality(history))
    /\ UNCHANGED <<config, history, historyCache, cfgMsgs, bgSeen,
                   notifyPending, refreshMsgs>>
    /\ UNCHANGED outsideBg

\* the search callback receives no result object (the API reported an error)
QueryCallbackNoResults(t, domain) ==
    /\ req[t].pc = "queries"
    /\ domain \in req[t].pending
    /\ QueryDone(t, domain, {}, "error", Cardinality(history))
    /\ UNCHANGED <<config, history, historyCache, cfgMsgs, bgSeen,
                   notifyPending, refreshMsgs>>
    /\ UNCHANGED outsideBg


(***************************************************************************)
(* Content script of one page context (content.js)                         *)
(***************************************************************************)
Anchors == 1..MaxAnchors

\* document.URL, the base the href attributes are resolved against
documentURL == Str("https", "x.com", "/page", FALSE, <<>>, FALSE, "")

\* the written strings "" and "#top"
EmptyString == Str("none", "", "", FALSE, <<>>, FALSE, "")
HashTop     == Str("none", "", "", FALSE, <<>>, TRUE, "top")

\* the href attribute of the a[href] elements, in document order
HrefAttribute(a) ==
    CASE a = 1   -> U_a
      [] a = 2   -> U_a
      [] a = 3   -> U_js
      [] a = 5   -> HashTop
      [] a = 6   -> EmptyString
      [] a = 7   -> Str("chrome-extension", "abcdef", "/popup.html", FALSE, <<>>, FALSE, "")
      [] a = 8   -> Str("chrome", "extensions", "/", FALSE, <<>>, FALSE, "")
      [] OTHER   -> U_aUtm

\* the href getter: the attribute parsed against the base URL and serialized;
\* a reference without scheme takes scheme and host of the base, and path
\* and query too where it has none of its own; the fragment is its own
ResolveHref(attr, base) ==
    IF attr.sch # "none"
    THEN (IF URLThrows(attr) THEN attr ELSE toString(URL(attr)))
    ELSE Str(base.sch, base.host,
             IF attr.path = "" THEN base.path ELSE attr.path,
             IF attr.path = "" /\ ~attr.hasQ THEN base.hasQ ELSE attr.hasQ,
             IF attr.path = "" /\ ~attr.hasQ THEN base.q ELSE attr.q,
             attr.hasF, attr.f)

\* anchor.href
Href(a) == ResolveHref(HrefAttribute(a), documentURL)

\* the configurations a checkVisited response can carry
ResponseConfigs ==
    {[DEFAULT_CONFIG EXCEPT !.enabled = e, !.highlightTextColor = c] :
        e \in BOOLEAN, c \in {"#FF0000", ""}}

\* no click has been handled
NoClick == [a |-> 0, added |-> FALSE]

\* the page context before the content script has run
PageQuiet ==
    /\ loaded = FALSE
    /\ dom = {}
    /\ marked = {}
    /\ textColor = "unset"
    /\ isProcessing = FALSE
    /\ debounceTimer = "null"
    /\ observer = "null"
    /\ runtimeId = TRUE
    /\ cycles = <<>>
    /\ lastCall = "none"
    /\ overlap = FALSE
    /\ lastClick = NoClick

\* s without its i-th element
RemoveAt(s, i) == SubSeq(s, 1, i - 1) \o SubSeq(s, i + 1, Len(s))

\* config.highlightTextColor || '#C58AF9'
applyHighlightColors(cfg) ==
    IF cfg.highlightTextColor = "" THEN "#C58AF9" ELSE cfg.highlightTextColor

\* !href || href.startsWith('javascript:') || href.startsWith('#') ||
\* href.startsWith('chrome://') || href.startsWith('chrome-extension://')
SkippedHref(href) ==
    \/ href = EmptyString
    \/ href.sch \in {"javascript", "chrome", "chrome-extension"}
    \/ href.sch = "none" /\ href.host = "" /\ href.path = "" /\ ~href.hasQ /\ href.hasF

\* the loop of collectLinks over the anchors from a on: Map of url -> elements
RECURSIVE CollectLoop(_, _)
CollectLoop(a, linkMap) ==
    IF \A b \in dom : b < a THEN linkMap
    ELSE IF a \notin dom \/ SkippedHref(Href(a)) \/ URLThrows(Href(a))
    THEN CollectLoop(a + 1, linkMap)
    ELSE LET ks == {i \in 1..Len(linkMap) : linkMap[i].url = Href(a)} IN
         IF ks = {}
         THEN CollectLoop(a + 1,
                  Append(linkMap, [url |-> Href(a), elements |-> <<a>>]))
         ELSE LET k == CHOOSE i \in ks : TRUE IN
              CollectLoop(a + 1,
                  [linkMap EXCEPT ![k].elements = Append(@, a)])

collectLinks == CollectLoop(1, <<>>)

\* Array.from(linkMap.keys())
KeysOf(linkMap) == [i \in 1..Len(linkMap) |-> linkMap[i].url]

\* clearHighlights() removing no class
ClearsNothing(m) == m

\* clearHighlights(): the class is removed from the elements of the document
clearHighlights(m) == m \ dom

\* the elements of linkMap whose URL is in visitedSet
VisitedElements(linkMap, visitedSet) ==
    UNION {Range(linkMap[i].elements) :
              i \in {j \in 1..Len(linkMap) : linkMap[j].url \in visitedSet}}

\* a cycle that has sent checkVisited and has not applied its response
Unapplied(s) == {i \in 1..Len(s) : s[i].phase = "checkVisited"}

\* the guard of processLinks without the isProcessing test
GuardOmitted == FALSE

\* the size test left out
SizeTestOmitted(linkMap) == FALSE

\* linkMap.size === 0
NoLinks(linkMap) == Len(linkMap) = 0

\* if (isProcessing) return;
AlreadyProcessing == isProcessing

\* processLinks() up to its first await: guard, runtime id test, collectLinks,
\* sendMessage({action: 'checkVisited', urls})
processLinks ==
    IF AlreadyProcessing
    THEN /\ lastCall' = "dropped"
         /\ UNCHANGED <<isProcessing, cycles, overlap>>
    ELSE IF ~runtimeId
    THEN /\ isProcessing' = FALSE
         /\ lastCall' = "invalid"
         /\ UNCHANGED <<cycles, overlap>>
    ELSE LET linkMap == collectLinks IN
         /\ overlap' = (overlap \/ Unapplied(cycles) # {})
         /\ IF NoLinks(linkMap)
            THEN /\ isProcessing' = FALSE
                 /\ lastCall' = "empty"
                 /\ UNCHANGED cycles
            ELSE /\ Len(cycles) < MaxCycles
                 /\ isProcessing' = TRUE
                 /\ lastCall' = "started"
                 /\ cycles' = Append(cycles,
                        [phase |-> "checkVisited", linkMap |-> linkMap])

\* debouncedProcessLinks(): clearTimeout, setTimeout(processLinks, 300)
debouncedProcessLinks == debounceTimer' = "pending"

\* the initialisation at the end of the script: processLinks(); startObserver()
ScriptStart ==
    /\ ~loaded
    /\ loaded' = TRUE
    /\ processLinks
    /\ observer' = "observing"
    /\ UNCHANGED <<dom, marked, textColor, debounceTimer, runtimeId>>
    /\ UNCHANGED <<lastClick, outsidePage>>

\* the page adds an a[href] element; the MutationObserver callback sees an
\* added A element and calls debouncedProcessLinks()
MutationAddsLink(a) ==
    /\ a \notin dom
    /\ dom' = dom \cup {a}
    /\ IF observer = "observing"
       THEN debouncedProcessLinks
       ELSE UNCHANGED debounceTimer
    /\ UNCHANGED <<loaded, marked, textColor, isProcessing, observer,
                   runtimeId, cycles, lastCall, overlap>>
    /\ UNCHANGED <<lastClick, outsidePage>>

\* the page removes an a[href] element: the callback finds no added link
MutationRemovesLink(a) ==
    /\ a \in dom
    /\ dom' = dom \ {a}
    /\ UNCHANGED <<loaded, marked, textColor, isProcessing, debounceTimer,
                   observer, runtimeId, cycles, lastCall, overlap>>
    /\ UNCHANGED <<lastClick, outsidePage>>

\* visibilitychange with visibilityState 'visible'
VisibilityVisible ==
    /\ loaded
    /\ debouncedProcessLinks
    /\ UNCHANGED <<loaded, dom, marked, textColor, isProcessing, observer,
                   runtimeId, cycles, lastCall, overlap>>
    /\ UNCHANGED <<lastClick, outsidePage>>

\* the debounce timeout expires: processLinks()
TimerExpires ==
    /\ debounceTimer = "pending"
    /\ debounceTimer' = "expired"
    /\ processLinks
    /\ UNCHANGED <<loaded, dom, marked, textColor, observer, runtimeId>>
    /\ UNCHANGED <<lastClick, outsidePage>>

\* onMessage 'refreshHighlights': processLinks(); sendResponse({success: true});
\* the browser delivers messages to a context that is still valid
OnRefreshHighlights ==
    /\ loaded
    /\ runtimeId
    /\ processLinks
    /\ UNCHANGED <<loaded, dom, marked, textColor, debounceTimer, observer,
                   runtimeId>>
    /\ UNCHANGED <<lastClick, outsidePage>>

\* the early returns of handleLinkClick: the anchor already carries the
\* class, its href has a skipped prefix, or new URL(href) throws
ClickReturnsEarly(a) ==
    a \in marked \/ SkippedHref(Href(a)) \/ URLThrows(Href(a))

\* handleLinkClick on element a of the document: unless it returns early, the
\* class is added to a and to every a[href] of the document with the same href
handleLinkClick(a) ==
    marked' = IF ClickReturnsEarly(a) THEN marked
              ELSE marked \cup {b \in dom : Href(b) = Href(a)}

\* the user clicks on element a
LinkClick(a) ==
    /\ loaded
    /\ a \in dom
    /\ handleLinkClick(a)
    /\ UNCHANGED <<loaded, dom, textColor, isProcessing, debounceTimer,
                   observer, runtimeId, cycles, lastCall, overlap, lastClick>>
    /\ UNCHANGED outsidePage

\* the user clicks on element a, and the click is recorded
RecordedLinkClick(a) ==
    /\ loaded
    /\ a \in dom
    /\ handleLinkClick(a)
    /\ lastClick' = [a |-> a, added |-> ~ClickReturnsEarly(a)]
    /\ UNCHANGED <<loaded, dom, textColor, isProcessing, debounceTimer,
                   observer, runtimeId, cycles, lastCall, overlap>>
    /\ UNCHANGED outsidePage

\* the extension is reloaded or removed: chrome.runtime.id disappears
ContextInvalidated ==
    /\ loaded
    /\ runtimeId
    /\ runtimeId' = FALSE
    /\ UNCHANGED <<loaded, dom, marked, textColor, isProcessing,
                   debounceTimer, observer, cycles, lastCall, overlap>>
    /\ UNCHANGED <<lastClick, outsidePage>>

\* the checkVisited promise of cycle i resolves without a response
ResponseUndefined(i) ==
    /\ i \in Unapplied(cycles)
    /\ isProcessing' = FALSE
    /\ cycles' = RemoveAt(cycles, i)
    /\ UNCHANGED <<loaded, dom, marked, textColor, debounceTimer, observer,
                   runtimeId, lastCall, overlap>>
    /\ UNCHANGED <<lastClick, outsidePage>>

\* the response of cycle i carries a configuration with enabled false:
\* applyHighlightColors, clearHighlights, return
ApplyDisabled(i, cfg) ==
    /\ i \in Unapplied(cycles)
    /\ ~cfg.enabled
    /\ textColor' = applyHighlightColors(cfg)
    /\ marked' = clearHighlights(marked)
    /\ overlap' = (overlap \/ \E j \in Unapplied(cycles) : j < i)
    /\ isProcessing' = FALSE
    /\ cycles' = RemoveAt(cycles, i)
    /\ UNCHANGED <<loaded, dom, debounceTimer, observer, runtimeId, lastCall,
                   lastClick>>

ResponseDisabled(i, cfg) ==
    /\ ApplyDisabled(i, cfg)
    /\ UNCHANGED outsidePage

\* the response of cycle i carries no configuration: !config?.enabled holds,
\* clearHighlights, return
ResponseWithoutConfig(i) ==
    /\ i \in Unapplied(cycles)
    /\ marked' = clearHighlights(marked)
    /\ overlap' = (overlap \/ \E j \in Unapplied(cycles) : j < i)
    /\ isProcessing' = FALSE
    /\ cycles' = RemoveAt(cycles, i)
    /\ UNCHANGED <<loaded, dom, textColor, debounceTimer, observer, runtimeId,
                   lastCall, lastClick>>
    /\ UNCHANGED outsidePage

\* the response of cycle i carries an enabled configuration: applyHighlightColors,
\* clearHighlights, the class is added to the elements of the visited URLs,
\* sendMessage({action: 'updateStats', ...})
ApplyEnabled(i, visitedUrls, cfg) ==
    /\ i \in Unapplied(cycles)
    /\ cfg.enabled
    /\ visitedUrls \subseteq Range(KeysOf(cycles[i].linkMap))
    /\ textColor' = applyHighlightColors(cfg)
    /\ marked' = clearHighlights(marked)
                    \cup VisitedElements(cycles[i].linkMap, visitedUrls)
    /\ overlap' = (overlap \/ \E j \in Unapplied(cycles) : j < i)
    /\ cycles' = [cycles EXCEPT ![i].phase = "updateStats"]
    /\ UNCHANGED <<loaded, dom, isProcessing, debounceTimer, observer,
                   runtimeId, lastCall, lastClick>>

ResponseEnabled(i, visitedUrls, cfg) ==
    /\ ApplyEnabled(i, visitedUrls, cfg)
    /\ UNCHANGED outsidePage

\* the checkVisited promise of cycle i rejects; on 'Extension context
\* invalidated' disconnectObserver(); finally isProcessing = false
RequestRejected(i, invalidated) ==
    /\ i \in Unapplied(cycles)
    /\ invalidated => ~runtimeId
    /\ observer' = IF invalidated THEN "null" ELSE observer
    /\ isProcessing' = FALSE
    /\ cycles' = RemoveAt(cycles, i)
    /\ UNCHANGED <<loaded, dom, marked, textColor, debounceTimer, runtimeId,
                   lastCall, overlap>>
    /\ UNCHANGED <<lastClick, outsidePage>>

\* the updateStats promise settles and the finally block is left out
StatsSettledKeepingFlag(i) ==
    /\ i \in 1..Len(cycles)
    /\ cycles[i].phase = "updateStats"
    /\ cycles' = RemoveAt(cycles, i)
    /\ UNCHANGED <<loaded, dom, marked, textColor, isProcessing, debounceTimer,
                   observer, runtimeId, lastCall, overlap>>
    /\ UNCHANGED <<lastClick, outsidePage>>

\* the updateStats promise of cycle i settles (a rejection is swallowed);
\* finally isProcessing = false
StatsSettled(i) ==
    /\ i \in 1..Len(cycles)
    /\ cycles[i].phase = "updateStats"
    /\ isProcessing' = FALSE
    /\ cycles' = RemoveAt(cycles, i)
    /\ UNCHANGED <<loaded, dom, marked, textColor, debounceTimer, observer,
                   runtimeId, lastCall, overlap>>
    /\ UNCHANGED <<lastClick, outsidePage>>


(***************************************************************************)
(* One checkVisited request against a fixed history store and a fixed      *)
(* configuration; the candidate list, the history and the configuration    *)
(* are drawn from bounded sets                                             *)
(***************************************************************************)
MatchConfigs ==
    {[DEFAULT_CONFIG EXCEPT !.enabled = e, !.ignoreParams = i] :
        e \in BOOLEAN, i \in {<<>>, <<"utm_source">>, <<"UTM_SOURCE">>}}

\* the harness variables while the normalizer harness is not exercised
NormQuiet ==
    /\ nUrl = U_a /\ nIgn = <<>> /\ nOut = U_a /\ nOut2 = U_a
    /\ nVar = U_a /\ nVarKind = "none" /\ nVarOut = U_a /\ nStage = "off"

MatchInit ==
    /\ NormQuiet
    /\ PageQuiet
    /\ config \in MatchConfigs
    /\ history \in SUBSET HistUrls
    /\ req = [t \in Tabs |-> NoRequest]
    /\ resp = [t \in Tabs |-> NoResponse]
    /\ historyCache = {}
    /\ cfgMsgs = {}
    /\ bgSeen = 0
    /\ notifyPending = 0
    /\ refreshMsgs = [t \in Tabs |-> 0]

MatchNext ==
    \/ \E urls \in CandLists : CheckVisitedArrive(1, urls)
    \/ ReceiveConfigDisabled(1)
    \/ \E thrown \in SUBSET Hostnames : ReceiveConfigEnabled(1, thrown)
    \/ \E d \in Hostnames : QueryCallbackResults(1, d)
    \/ \E d \in Hostnames : QueryCallbackNoResults(1, d)

SpecMatch == MatchInit /\ [][MatchNext]_vars

(***************************************************************************)
(* Properties of checkVisitedUrls and handleCheckVisited (under SpecMatch) *)
(***************************************************************************)
\* some URL of the history store has the same normalizeUrl result
InHistoryByKey(u, ignoreParams) ==
    \E h \in history : normalizeUrl(h, ignoreParams) = normalizeUrl(u, ignoreParams)

\* the request of tab t has been answered with the feature enabled
AnsweredEnabled(t) == req[t].pc = "done" /\ req[t].cfg.enabled

\* the history query of u's hostname delivered its result items
QueryDelivered(t, u) ==
    /\ extractDomain(u) \in DOMAIN req[t].outcome
    /\ req[t].outcome[extractDomain(u)] = "ok"

\* some chrome.history.search call of the request threw
SomeQueryThrew(t) == \E d \in DOMAIN req[t].outcome : req[t].outcome[d] = "throw"

C5_DisabledNoQuery ==
    \A t \in Tabs :
        (req[t].pc = "done" /\ ~req[t].cfg.enabled) =>
            /\ resp[t].visitedUrls = <<>>
            /\ ~resp[t].error
            /\ DOMAIN req[t].outcome = {}

\* C5 witness: a disabled request was answered although a candidate is in
\* the history store
C5_Witness ==
    /\ req[1].pc = "done" /\ ~req[1].cfg.enabled
    /\ \E u \in Range(req[1].urls) :
          isValidHttpUrl(u) /\ InHistoryByKey(u, req[1].cfg.ignoreParams)

\* C6: a candidate that does not parse or is not http(s) causes no history
\* query (every queried hostname is the hostname of a valid candidate) and is
\* never in the visited result, even with the identical string in history.
C6_InvalidNeverQueriedNorReported ==
    \A t \in Tabs :
        req[t].pc \in {"queries", "done"} =>
            /\ DOMAIN req[t].outcome \subseteq
                  {extractDomain(u) : u \in {v \in Range(req[t].urls) : isValidHttpUrl(v)}}
            /\ \A u \in Range(req[t].urls) :
                  ~isValidHttpUrl(u) =>
                      /\ u \notin Range(req[t].visited)
                      /\ req[t].pc = "done" => u \notin Range(resp[t].visitedUrls)

\* C6 witness: ftp://x.com/a and javascript:void(0) were the candidates, the
\* history store holds ftp://x.com/a, and the enabled request was answered
\* without any query
C6_Witness ==
    /\ AnsweredEnabled(1)
    /\ Range(req[1].urls) = {U_ftp, U_js}
    /\ U_ftp \in history
    /\ DOMAIN req[1].outcome = {}
    /\ resp[1].visitedUrls = <<>>

\* C7: when the history query of one domain fails (error, no result object,
\* or throw) in a call over several domains of which another has a matching
\* candidate, the response is not the error response and carries exactly the
\* matches of the domains that did not fail.
C7_FailingDomainIsolated ==
    (/\ AnsweredEnabled(1)
     /\ Cardinality(DOMAIN req[1].groups) >= 2
     /\ \E d \in DOMAIN req[1].outcome : req[1].outcome[d] \in {"error", "throw"}
     /\ \E u \in Range(req[1].urls) :
           /\ isValidHttpUrl(u)
           /\ req[1].outcome[extractDomain(u)] \notin {"error", "throw"}
           /\ InHistoryByKey(u, req[1].cfg.ignoreParams))
    => /\ ~resp[1].error
       /\ Range(resp[1].visitedUrls) =
             {u \in Range(req[1].urls) :
                 /\ isValidHttpUrl(u)
                 /\ req[1].outcome[extractDomain(u)] \notin {"error", "throw"}
                 /\ InHistoryByKey(u, req[1].cfg.ignoreParams)}

\* number of positions of s that hold x
Occurrences(s, x) == Cardinality({i \in 1..Len(s) : s[i] = x})

RECURSIVE SumOver(_, _, _)
SumOver(ds, g, x) ==
    IF ds = {} THEN 0
    ELSE LET d == CHOOSE e \in ds : TRUE
         IN Occurrences(g[d], x) + SumOver(ds \ {d}, g, x)

\* C8: the domain groups taken together hold each distinct valid candidate
\* exactly once, also for candidate lists with repeated URLs.
C8_GroupsHoldEachOnce ==
    (req[1].pc \in {"queries", "done"} /\ req[1].cfg.enabled) =>
        \A u \in Range(req[1].urls) :
            isValidHttpUrl(u) =>
                SumOver(DOMAIN req[1].groups, req[1].groups, u) = 1

\* the hostnames of the valid http(s) candidates of the request
ValidHostnames(t) ==
    {extractDomain(u) : u \in {v \in Range(req[t].urls) : isValidHttpUrl(v)}}

\* C22: one enabled checkVisitedUrls call issues exactly one history query
\* per distinct hostname among its valid http(s) candidates, however many
\* candidates share a hostname, and no query when no candidate is valid.
C22_OneQueryPerHostname ==
    (req[1].pc \in {"queries", "done"} /\ req[1].cfg.enabled) =>
        /\ Len(req[1].queries) = Cardinality(ValidHostnames(1))
        /\ \A h \in ValidHostnames(1) : Occurrences(req[1].queries, h) = 1

\* two candidates of one hostname were checked with one query
C22_Witness ==
    /\ req[1].pc = "done"
    /\ req[1].cfg.enabled
    /\ ~resp[1].error
    /\ req[1].urls = <<U_aUtm, U_a>>
    /\ req[1].queries = <<"x.com">>
    /\ req[1].outcome["x.com"] = "ok"
\* the candidates of domain d that the then-handler of d's query matches
DomainMatches(t, d) ==
    IF req[t].outcome[d] # "ok" THEN {}
    ELSE {u \in Range(req[t].groups[d]) :
             normalizeUrl(u, req[t].cfg.ignoreParams) \in
                 {normalizeUrl(h, req[t].cfg.ignoreParams) : h \in TextMatches(d)}}

\* C23: a checkVisitedUrls call that returns does so after every domain query
\* has completed; the returned URLs are the union of the per-domain matches,
\* whatever the order in which the domain queries completed, and each of
\* them is one of the original candidate strings.
C23_UnionOfDomainMatches ==
    (req[1].pc = "done" /\ req[1].cfg.enabled /\ ~resp[1].error) =>
        /\ \A d \in DOMAIN req[1].outcome : req[1].outcome[d] \in {"ok", "error"}
        /\ Range(resp[1].visitedUrls) =
              UNION {DomainMatches(1, d) : d \in DOMAIN req[1].groups}
        /\ Range(resp[1].visitedUrls) \subseteq Range(req[1].urls)

\* the query of the second candidate's domain completed first and both
\* candidates were matched, the second through its normalized key
C23_Witness ==
    /\ req[1].pc = "done"
    /\ ~resp[1].error
    /\ req[1].urls = <<U_a, U_yBA>>
    /\ resp[1].visitedUrls = <<U_yBA, U_a>>

(***************************************************************************)
(* The background with its environment: the user browses, the popup saves  *)
(* configurations, pages send checkVisited                                 *)
(***************************************************************************)
\* the candidate URLs the page of a tab sends (Array.from(linkMap.keys()))
PageUrls(t) == IF t = 1 THEN <<U_aUtm, U_a>> ELSE <<U_a, U_js>>

\* the configurations the popup can save
PopupConfigs ==
    {[enabled |-> TRUE, ignoreParams |-> <<"utm_source">>,
      highlightTextColor |-> "#FF0000", ver |-> 0],
     [enabled |-> FALSE, ignoreParams |-> <<>>,
      highlightTextColor |-> "#00FF00", ver |-> 0]}

Max(a, b) == IF a > b THEN a ELSE b

\* the user visits a page: the browser adds its URL to the history store
Visit(u) ==
    /\ u \notin history
    /\ history' = history \cup {u}
    /\ UNCHANGED <<config, req, resp, historyCache, cfgMsgs, bgSeen,
                   notifyPending, refreshMsgs>>
    /\ UNCHANGED outsideBg

\* popup saveConfig(): chrome.storage.sync.set(currentConfig, ...) and, in its
\* callback, sendMessage({action: 'configUpdated'})
SaveConfig(c) ==
    /\ config.ver < MaxSaves
    /\ config' = [c EXCEPT !.ver = config.ver + 1]
    /\ cfgMsgs' = cfgMsgs \cup {config.ver + 1}
    /\ UNCHANGED <<history, req, resp, historyCache, bgSeen,
                   notifyPending, refreshMsgs>>
    /\ UNCHANGED outsideBg

\* onMessage 'configUpdated': historyCache.clear(); notifyAllTabs();
\* sendResponse({success: true})
ConfigUpdated(v) ==
    /\ v \in cfgMsgs
    /\ cfgMsgs' = cfgMsgs \ {v}
    /\ historyCache' = {}
    /\ notifyPending' = notifyPending + 1
    /\ bgSeen' = Max(bgSeen, v)
    /\ UNCHANGED <<config, history, req, resp, refreshMsgs>>
    /\ UNCHANGED outsideBg

\* notifyAllTabs after chrome.tabs.query({}) resolved: refreshHighlights is
\* sent to every tab
notifyAllTabs ==
    /\ notifyPending > 0
    /\ notifyPending' = notifyPending - 1
    /\ refreshMsgs' = [t \in Tabs |-> refreshMsgs[t] + 1]
    /\ UNCHANGED <<config, history, req, resp, historyCache, cfgMsgs, bgSeen>>
    /\ UNCHANGED outsideBg

\* a refreshHighlights message reaches the page of tab t
RefreshDelivered(t) ==
    /\ refreshMsgs[t] > 0
    /\ refreshMsgs' = [refreshMsgs EXCEPT ![t] = @ - 1]
    /\ UNCHANGED <<config, history, req, resp, historyCache, cfgMsgs, bgSeen,
                   notifyPending>>
    /\ UNCHANGED outsideBg

Init == NormQuiet /\ BgQuiet /\ PageQuiet

Next ==
    \/ Visit(U_a)
    \/ \E c \in PopupConfigs : SaveConfig(c)
    \/ \E v \in 1..MaxSaves : ConfigUpdated(v)
    \/ notifyAllTabs
    \/ \E t \in Tabs : RefreshDelivered(t)
    \/ \E t \in Tabs : CheckVisitedArrive(t, PageUrls(t))
    \/ \E t \in Tabs : ReceiveConfigDisabled(t)
    \/ \E t \in Tabs, thrown \in SUBSET Hostnames : ReceiveConfigEnabled(t, thrown)
    \/ \E t \in Tabs, d \in Hostnames : QueryCallbackResults(t, d)
    \/ \E t \in Tabs, d \in Hostnames : QueryCallbackNoResults(t, d)

Spec == Init /\ [][Next]_vars

\* C9: a checkVisited request that arrives after a configUpdated message was
\* processed reads the configuration afresh (the configuration it reads is at
\* least as new as the change the background was told of) and queries the
\* history store afresh (no result is older than the request); a response
\* that is not the error response carries that configuration and the matches
\* computed from those queries.
C9_FreshAfterConfigUpdate ==
    \A t \in Tabs :
        req[t].pc \in {"queries", "done"} =>
            /\ req[t].cfg.ver >= req[t].startSeen
            /\ ~req[t].staleResult
            /\ (req[t].pc = "done" /\ ~resp[t].error) =>
                  /\ resp[t].config = req[t].cfg
                  /\ resp[t].visitedUrls = req[t].visited

\* C9 witness: after a configuration change was processed, a request was
\* answered with the changed configuration and a match from the history store
C9_Witness ==
    \E t \in Tabs :
        /\ req[t].pc = "done"
        /\ req[t].startSeen >= 1
        /\ ~resp[t].error
        /\ resp[t].config.ver >= 1
        /\ resp[t].visitedUrls # <<>>

\* C21: the step that answers a tab's checkVisited request successfully leaves
\* an entry for that tab in the per-tab cache (the entry is created lazily by
\* the tab's first query and stays until an invalidation event for the tab).
C21_EntryAfterQuery ==
    [][\A t \in Tabs :
          (req[t].pc # "done" /\ req'[t].pc = "done" /\ ~resp'[t].error)
              => t \in historyCache']_vars

(***************************************************************************)
(* Inputs of the normalizer harness                                        *)
(***************************************************************************)
ParamNames == {"a", "utm_source", "UTM_Source"}
ParamValues == {"1", "2"}
Segments == {Seg(n, v) : n \in ParamNames, v \in ParamValues} \cup {BareSeg("a")}

QueriesUpTo(k) == UNION {[1..n -> Segments] : n \in 0..k}

IgnoreLists ==
    {<<>>, <<"utm_source">>, <<"UTM_SOURCE">>, <<"a", "utm_source">>}

\* http(s) strings: scheme and host in either case, with and without path,
\* query and fragment
HttpStrings ==
    {Str(o[1], o[2], o[3], hq[1], hq[2], hf[1], hf[2]) :
        o \in {<<"https", "x.com", "/a">>, <<"HTTP", "X.com", "">>},
        hq \in {<<FALSE, <<>> >>} \cup {<<TRUE, q>> : q \in QueriesUpTo(MaxParams)},
        hf \in {<<FALSE, "">>, <<TRUE, "">>, <<TRUE, "top">>}}

\* strings that do not parse, or parse with another scheme
OtherStrings ==
    {Str("javascript", "", "void(0)", FALSE, <<>>, FALSE, ""),
     Str("ftp", "x.com", "/a", TRUE, <<Seg("utm_source", "1")>>, FALSE, ""),
     Str("chrome", "extensions", "/", FALSE, <<>>, TRUE, ""),
     Str("none", "", "/a", TRUE, <<Seg("utm_source", "1"), Seg("a", "1")>>, FALSE, ""),
     Str("https", "", "", FALSE, <<>>, FALSE, "")}

NormInputs == HttpStrings \cup OtherStrings

\* the rearrangements of a query
Rearrangements(q) ==
    {[i \in 1..Len(q) |-> q[p[i]]] :
        p \in {f \in [1..Len(q) -> 1..Len(q)] :
                  \A i, j \in 1..Len(q) : i # j => f[i] # f[j]}}

\* the same string with its query segments rearranged
PermutedStrings(url) == {[url EXCEPT !.q = pq] : pq \in Rearrangements(url.q)}

\* the same string with the value of one ignored parameter changed
IgnoredValueVariants(url, ignoreParams) ==
    {[url EXCEPT !.q[i] = Seg(url.q[i].n, v)] :
        i \in {j \in 1..Len(url.q) :
                  toLowerCase(url.q[j].n) \in IgnoreSet(ignoreParams)},
        v \in ParamValues}

(***************************************************************************)
(* The invalidation events of the background: configUpdated, refreshTab,   *)
(* tabs.onActivated, tabs.onRemoved                                        *)
(***************************************************************************)
\* the sender of a message that comes from no tab (the popup)
NoTab == 0

\* an entry is set where the code deletes one
CacheSet(cache, t) == cache \cup {t}

\* historyCache.delete(tabId)
CacheDelete(cache, t) == cache \ {t}

\* onMessage 'refreshTab': if (sender.tab) historyCache.delete(sender.tab.id);
\* sendResponse({success: true})
RefreshTab(sender) ==
    /\ historyCache' = IF sender \in Tabs
                       THEN CacheDelete(historyCache, sender)
                       ELSE historyCache
    /\ UNCHANGED <<config, history, req, resp, cfgMsgs, bgSeen, notifyPending,
                   refreshMsgs>>
    /\ UNCHANGED outsideBg

\* tabs.onActivated after chrome.tabs.get resolved: for a tab whose URL is
\* present and not a chrome:// one, historyCache.delete(tabId) and
\* refreshHighlights is sent to the tab
TabActivated(t, web) ==
    /\ refreshMsgs[t] < MaxQueued
    /\ IF web
       THEN /\ historyCache' = CacheDelete(historyCache, t)
            /\ refreshMsgs' = [refreshMsgs EXCEPT ![t] = @ + 1]
       ELSE UNCHANGED <<historyCache, refreshMsgs>>
    /\ UNCHANGED <<config, history, req, resp, cfgMsgs, bgSeen, notifyPending>>
    /\ UNCHANGED outsideBg

\* tabs.onRemoved: historyCache.delete(tabId)
TabRemoved(t) ==
    /\ historyCache' = CacheDelete(historyCache, t)
    /\ UNCHANGED <<config, history, req, resp, cfgMsgs, bgSeen, notifyPending,
                   refreshMsgs>>
    /\ UNCHANGED outsideBg

CacheNext ==
    \/ \E c \in PopupConfigs : SaveConfig(c)
    \/ \E v \in 1..MaxSaves : ConfigUpdated(v)
    \/ notifyAllTabs
    \/ \E t \in Tabs : RefreshDelivered(t)
    \/ \E sender \in Tabs \cup {NoTab} : RefreshTab(sender)
    \/ \E t \in Tabs, web \in BOOLEAN : TabActivated(t, web)
    \/ \E t \in Tabs : TabRemoved(t)

SpecCache == Init /\ [][CacheNext]_vars

PageInit ==
    /\ NormQuiet
    /\ BgQuiet
    /\ loaded = FALSE
    /\ dom \in SUBSET Anchors
    /\ marked = {}
    /\ textColor = "unset"
    /\ isProcessing = FALSE
    /\ debounceTimer = "null"
    /\ observer = "null"
    /\ runtimeId = TRUE
    /\ cycles = <<>>
    /\ lastCall = "none"
    /\ overlap = FALSE
    /\ lastClick = NoClick

PageNext ==
    \/ ScriptStart
    \/ \E a \in Anchors : MutationAddsLink(a)
    \/ \E a \in Anchors : MutationRemovesLink(a)
    \/ VisibilityVisible
    \/ TimerExpires
    \/ OnRefreshHighlights
    \/ \E a \in Anchors : LinkClick(a)
    \/ ContextInvalidated
    \/ \E i \in 1..MaxCycles : ResponseUndefined(i)
    \/ \E i \in 1..MaxCycles, cfg \in ResponseConfigs : ResponseDisabled(i, cfg)
    \/ \E i \in 1..MaxCycles : ResponseWithoutConfig(i)
    \/ \E i \in 1..MaxCycles, cfg \in ResponseConfigs,
          visitedUrls \in SUBSET {Href(a) : a \in Anchors} :
              ResponseEnabled(i, visitedUrls, cfg)
    \/ \E i \in 1..MaxCycles, invalidated \in BOOLEAN :
          RequestRejected(i, invalidated)
    \/ \E i \in 1..MaxCycles : StatsSettled(i)

SpecPage == PageInit /\ [][PageNext]_vars

\* C10: in one page context, under any interleaving of initial load, timer
\* expiry, refreshHighlights message, visibility change and mutation, at most
\* one checkVisited request is outstanding at any time, and no processLinks
\* cycle collects links or applies a response while an earlier cycle has not
\* yet applied its own.
C10_SingleFlight ==
    /\ Cardinality(Unapplied(cycles)) <= 1
    /\ ~overlap

\* a trigger arrived while the checkVisited request of a cycle was
\* outstanding and started no second cycle
C10_Witness ==
    /\ lastCall = "dropped"
    /\ Len(cycles) = 1
    /\ cycles[1].phase = "checkVisited"
    /\ debounceTimer = "expired"

\* a call of processLinks that passes the guard and the runtime id test and
\* collects no link
EmptyScan ==
    /\ ScriptStart \/ TimerExpires \/ OnRefreshHighlights
    /\ ~isProcessing
    /\ runtimeId
    /\ collectLinks = <<>>

\* C16: a processLinks cycle whose link collection yields no URL sends no
\* checkVisited message, changes the marker class of no element, and leaves
\* isProcessing false, so that the next trigger can start a scan.
C16_EmptyScanIdle ==
    [][EmptyScan => /\ cycles' = cycles
                    /\ marked' = marked
                    /\ isProcessing' = FALSE]_vars

\* the URL sets the response to cycle i can list
UrlSets(i) == SUBSET Range(KeysOf(cycles[i].linkMap))

\* C17 as stated, over all elements: at the end of the apply phase the
\* elements carrying the marker class are exactly the elements of the
\* collected link groups whose URL is in the returned visited list when the
\* response's configuration is enabled, and there is none when it is disabled
\* or missing.
C17_MarkersAreVisitedGroups ==
    [][\A i \in Unapplied(cycles) :
         /\ \A v \in UrlSets(i), cfg \in ResponseConfigs :
               ResponseEnabled(i, v, cfg) =>
                   marked' = VisitedElements(cycles[i].linkMap, v)
         /\ \A cfg \in ResponseConfigs :
               (ResponseDisabled(i, cfg) \/ ResponseWithoutConfig(i)) =>
                   marked' = {}]_vars

\* C17: at the end of the apply phase, among the elements attached to the
\* document, those carrying the marker class are exactly the elements of the
\* collected link groups whose URL is in the returned visited list when the
\* response's configuration is enabled, and there is none when it is disabled
\* or missing; markers of earlier cycles and of clicks on other attached
\* elements are removed.
C17_AttachedMarkersAreVisitedGroups ==
    [][\A i \in Unapplied(cycles) :
         /\ \A v \in UrlSets(i), cfg \in ResponseConfigs :
               ResponseEnabled(i, v, cfg) =>
                   marked' \cap dom' =
                       VisitedElements(cycles[i].linkMap, v) \cap dom'
         /\ \A cfg \in ResponseConfigs :
               (ResponseDisabled(i, cfg) \/ ResponseWithoutConfig(i)) =>
                   marked' \cap dom' = {}]_vars

\* a cycle that collected one anchor has applied an enabled response listing
\* its URL: the collected anchor carries the marker, an anchor added during
\* the request does not
C17_Witness ==
    /\ Len(cycles) = 1
    /\ cycles[1].phase = "updateStats"
    /\ cycles[1].linkMap = <<[url |-> U_a, elements |-> <<1>>]>>
    /\ dom = {1, 2}
    /\ marked = {1}
    /\ textColor = "#FF0000"

\* a scan of a document whose only anchor is a javascript: link has returned
C16_Witness ==
    /\ loaded
    /\ lastCall = "empty"
    /\ dom = {3}
    /\ debounceTimer = "expired"
    /\ ~isProcessing
    /\ cycles = <<>>


\* C19: once processLinks has observed that the extension context is invalid
\* (the runtime id is absent), the mutation observer is disconnected and no
\* debounce timer is pending.
C19_InvalidationTearsDown ==
    lastCall = "invalid" => (observer = "null" /\ debounceTimer # "pending")

\* the response of the onMessage 'getStats' handler: total is linkMap.size of
\* a fresh collectLinks(), visited the number of elements of the document
\* that carry the marker class
getStats ==
    [total |-> Len(collectLinks), visited |-> Cardinality(marked \cap dom)]

\* C25: in every getStats response of a page the visited count does not
\* exceed the total count, also when several highlighted anchors share a URL.
C25_VisitedAtMostTotal ==
    loaded => (0 <= getStats.visited /\ getStats.visited <= getStats.total)

\* a message the page has sent to the background is answered or fails: the
\* promise of chrome.runtime.sendMessage settles and processLinks goes on
MessageSettles ==
    \/ \E i \in 1..MaxCycles : ResponseUndefined(i)
    \/ \E i \in 1..MaxCycles, cfg \in ResponseConfigs : ResponseDisabled(i, cfg)
    \/ \E i \in 1..MaxCycles : ResponseWithoutConfig(i)
    \/ \E i \in 1..MaxCycles, cfg \in ResponseConfigs,
          visitedUrls \in SUBSET {Href(a) : a \in Anchors} :
              ResponseEnabled(i, visitedUrls, cfg)
    \/ \E i \in 1..MaxCycles, invalidated \in BOOLEAN :
          RequestRejected(i, invalidated)
    \/ \E i \in 1..MaxCycles : StatsSettled(i)

\* the page under the assumption that every message sent to the background
\* is eventually answered or fails
SpecPageFair == PageInit /\ [][PageNext]_vars /\ WF_vars(MessageSettles)

\* C27: every processLinks cycle that starts eventually returns the
\* coordinator to idle, provided each message sent to the background is
\* eventually answered or fails; while no message is outstanding the flag is
\* false, so a new scan can start.
C27_CycleReturnsToIdle ==
    /\ [](cycles = <<>> => ~isProcessing)
    /\ isProcessing ~> ~isProcessing

\* a cycle has applied an enabled response, its updateStats message has
\* settled, and the coordinator is idle again
C27_Witness ==
    /\ loaded
    /\ lastCall = "started"
    /\ textColor = "#FF0000"
    /\ marked \cap dom # {}
    /\ cycles = <<>>
    /\ ~isProcessing

(***************************************************************************)
(* The page with its clicks recorded: scans, responses and clicks          *)
(***************************************************************************)
ClickNext ==
    \/ ScriptStart
    \/ \E a \in Anchors : MutationAddsLink(a)
    \/ TimerExpires
    \/ OnRefreshHighlights
    \/ \E a \in Anchors : RecordedLinkClick(a)
    \/ \E i \in 1..MaxCycles, cfg \in ResponseConfigs : ResponseDisabled(i, cfg)
    \/ \E i \in 1..MaxCycles, cfg \in ResponseConfigs,
          visitedUrls \in SUBSET {Href(a) : a \in Anchors} :
              ResponseEnabled(i, visitedUrls, cfg)
    \/ \E i \in 1..MaxCycles : StatsSettled(i)

SpecClick == PageInit /\ [][ClickNext]_vars

\* C12: once handleLinkClick has added the marker class to an anchor, the
\* anchor keeps the marker in every later state of the page, also after a scan
\* cycle that was outstanding at click time, or that started later, has applied
\* its response.
C12_ClickMarkerKept == lastClick.added => lastClick.a \in marked

\* C18: a click on an anchor with an eligible reference leaves every anchor
\* of the page with the same href carrying the marker class and changes the
\* marker of no anchor with another href, also when the clicked anchor already
\* carried the marker while another anchor with the same href did not.
C18_ClickMarksSameHref ==
    [][\A a \in Anchors :
          (RecordedLinkClick(a) /\ ~SkippedHref(Href(a))
                                /\ ~URLThrows(Href(a))) =>
              /\ \A b \in dom : Href(b) = Href(a) => b \in marked'
              /\ \A b \in Anchors :
                    Href(b) # Href(a) => (b \in marked' <=> b \in marked)]_vars


(***************************************************************************)
(* collectLinks over documents with every kind of href attribute           *)
(***************************************************************************)
\* the a[href] elements a document can hold: absolute http(s) URLs (two of
\* them equal), javascript:, "#top", "", chrome-extension:// and chrome://
DocAnchors == Anchors \cup {5, 6, 7, 8}

CollectInit ==
    /\ NormQuiet
    /\ BgQuiet
    /\ loaded = FALSE
    /\ dom \in SUBSET DocAnchors
    /\ marked = {}
    /\ textColor = "unset"
    /\ isProcessing = FALSE
    /\ debounceTimer = "null"
    /\ observer = "null"
    /\ runtimeId = TRUE
    /\ cycles = <<>>
    /\ lastCall = "none"
    /\ overlap = FALSE
    /\ lastClick = NoClick

CollectNext ==
    \/ ScriptStart
    \/ OnRefreshHighlights

SpecCollect == CollectInit /\ [][CollectNext]_vars

\* the references the LinkGroup is said to leave out, by the href attribute:
\* empty, javascript:, a pure fragment '#...', chrome://, chrome-extension://
SaidExcluded(a) ==
    LET attr == HrefAttribute(a) IN
    \/ attr = EmptyString
    \/ attr.sch \in {"javascript", "chrome", "chrome-extension"}
    \/ attr.sch = "none" /\ attr.path = "" /\ ~attr.hasQ /\ attr.hasF

\* the groups of linkMap that hold element a
GroupsOf(linkMap, a) ==
    {i \in 1..Len(linkMap) : a \in Range(linkMap[i].elements)}

\* C24: collectLinks leaves out every anchor whose reference is empty, a
\* javascript: pseudo-URL, a pure-fragment reference or a chrome:// or
\* chrome-extension:// URL; every other anchor is in exactly one group, the
\* one keyed by its resolved absolute URL.
C24_GroupsAsSaid ==
    /\ \A i \in 1..Len(cycles) : \A a \in dom :
          LET linkMap == cycles[i].linkMap IN
          IF SaidExcluded(a) THEN GroupsOf(linkMap, a) = {}
          ELSE /\ Cardinality(GroupsOf(linkMap, a)) = 1
               /\ \A k \in GroupsOf(linkMap, a) :
                     /\ linkMap[k].url = Href(a)
                     /\ Occurrences(linkMap[k].elements, a) = 1
    /\ (loaded /\ lastCall = "empty") => \A a \in dom : SaidExcluded(a)

(***************************************************************************)
(* The page of tab 1 together with the background: the page's checkVisited *)
(* message is answered by handleCheckVisited, and the refreshHighlights    *)
(* messages of notifyAllTabs reach the page's listener                     *)
(***************************************************************************)
ThePage == 1

\* the checkVisited message of the outstanding cycle reaches the background
TabCheckVisitedArrives ==
    /\ req[ThePage].pc = "idle"
    /\ \E i \in Unapplied(cycles) :
          CheckVisitedArrive(ThePage, KeysOf(cycles[i].linkMap))

\* the response passed to sendResponse resolves the page's await: the apply
\* phase of processLinks runs with it
TabResponseArrives ==
    /\ req[ThePage].pc = "done"
    /\ resp[ThePage].has
    /\ \E i \in Unapplied(cycles) :
          IF resp[ThePage].config.enabled
          THEN ApplyEnabled(i, Range(resp[ThePage].visitedUrls),
                            resp[ThePage].config)
          ELSE ApplyDisabled(i, resp[ThePage].config)
    /\ req' = [req EXCEPT ![ThePage] = NoRequest]
    /\ resp' = [resp EXCEPT ![ThePage] = NoResponse]
    /\ UNCHANGED <<config, history, historyCache, cfgMsgs, bgSeen,
                   notifyPending, refreshMsgs>>
    /\ UNCHANGED normVars

\* a refreshHighlights message reaches the page's onMessage listener:
\* processLinks(); sendResponse({success: true})
TabRefreshArrives ==
    /\ loaded
    /\ refreshMsgs[ThePage] > 0
    /\ refreshMsgs' = [refreshMsgs EXCEPT ![ThePage] = @ - 1]
    /\ processLinks
    /\ UNCHANGED <<loaded, dom, marked, textColor, debounceTimer, observer,
                   runtimeId, lastClick>>
    /\ UNCHANGED <<config, history, req, resp, historyCache, cfgMsgs, bgSeen,
                   notifyPending>>
    /\ UNCHANGED normVars

\* the page as loaded: two links to the same page
TabInit ==
    /\ NormQuiet
    /\ BgQuiet
    /\ loaded = FALSE
    /\ dom = {1, 2}
    /\ marked = {}
    /\ textColor = "unset"
    /\ isProcessing = FALSE
    /\ debounceTimer = "null"
    /\ observer = "null"
    /\ runtimeId = TRUE
    /\ cycles = <<>>
    /\ lastCall = "none"
    /\ overlap = FALSE
    /\ lastClick = NoClick

TabNext ==
    \/ \E c \in PopupConfigs : SaveConfig(c)
    \/ \E v \in 1..MaxSaves : ConfigUpdated(v)
    \/ notifyAllTabs
    \/ ScriptStart
    \/ VisibilityVisible
    \/ TimerExpires
    \/ TabCheckVisitedArrives
    \/ ReceiveConfigDisabled(ThePage)
    \/ ReceiveConfigEnabled(ThePage, {})
    \/ \E d \in Hostnames : QueryCallbackResults(ThePage, d)
    \/ TabResponseArrives
    \/ \E i \in 1..MaxCycles : StatsSettled(i)
    \/ TabRefreshArrives

\* the steps of the extension itself other than the debounce timer: message
\* deliveries, handlers, callbacks
TabProgress ==
    \/ \E v \in 1..MaxSaves : ConfigUpdated(v)
    \/ notifyAllTabs
    \/ ScriptStart
    \/ TabCheckVisitedArrives
    \/ ReceiveConfigDisabled(ThePage)
    \/ ReceiveConfigEnabled(ThePage, {})
    \/ \E d \in Hostnames : QueryCallbackResults(ThePage, d)
    \/ TabResponseArrives
    \/ \E i \in 1..MaxCycles : StatsSettled(i)
    \/ TabRefreshArrives

\* every message is delivered, every handler and callback runs, the timer
\* expires; the user and the popup are under no obligation.  None of the
\* steps of TabProgress enables another one forever, so that one condition
\* for all of them lets each pending one happen.
TabFairness == WF_vars(TabProgress) /\ WF_vars(TimerExpires)

SpecTab == TabInit /\ [][TabNext]_vars /\ TabFairness

\* the background has processed the configUpdated message of the stored
\* configuration, and the content script of the page is running
Synced == loaded /\ config.ver >= 1 /\ bgSeen = config.ver

\* the latest response the page has applied carried the settings of c (the
\* configurations of the popup differ in their color)
Reflects(c) == textColor = applyHighlightColors(c)

\* C11: after the background has processed the configUpdated message of a
\* settings change, the page eventually completes a scan cycle with the
\* stored configuration, so that its color and highlights reflect the new
\* settings, also when the change arrives while a checkVisited request of
\* the page is outstanding.
C11_SettingsReachPage == Synced ~> (~Synced \/ Reflects(config))

\* C15: a scan trigger (refreshHighlights message, expiry of the debounce
\* timer) that arrives while a request is outstanding is coalesced rather than
\* lost: after the call that was turned away, a new scan cycle starts once
\* the outstanding cycle has completed, without any further trigger.
C15_TriggerCoalesced == (lastCall = "dropped") ~> (lastCall = "started")

(***************************************************************************)
(* The page of tab 1 and the background with the user clicking links       *)
(***************************************************************************)
UseNext ==
    \/ \E c \in PopupConfigs : SaveConfig(c)
    \/ \E v \in 1..MaxSaves : ConfigUpdated(v)
    \/ notifyAllTabs
    \/ ScriptStart
    \/ \E a \in Anchors : MutationAddsLink(a)
    \/ VisibilityVisible
    \/ TimerExpires
    \/ \E a \in Anchors : LinkClick(a)
    \/ TabCheckVisitedArrives
    \/ ReceiveConfigDisabled(ThePage)
    \/ ReceiveConfigEnabled(ThePage, {})
    \/ \E d \in Hostnames : QueryCallbackResults(ThePage, d)
    \/ TabResponseArrives
    \/ \E i \in 1..MaxCycles : StatsSettled(i)
    \/ TabRefreshArrives

SpecUse == TabInit /\ [][UseNext]_vars

\* the latest response the page has applied was one with the feature
\* disabled, and the stored configuration is a disabled one (only the
\* disabled configuration of the popup has its color)
DisabledApplied ==
    /\ ~config.enabled
    /\ lastCall # "none"
    /\ textColor = applyHighlightColors(config)

\* C26: once a processLinks cycle has completed with a response whose
\* configuration is disabled, no link element of the page carries the marker
\* class for as long as the configuration stays disabled, whatever clicks,
\* mutations and scan triggers occur.
C26_DisabledNoMarker == DisabledApplied => marked \cap dom = {}

(***************************************************************************)
(* Normalizer harness: the inputs are drawn, the actions apply normalizeUrl *)
(***************************************************************************)
NormInit ==
    /\ BgQuiet
    /\ PageQuiet
    /\ nUrl \in NormInputs
    /\ nIgn \in IgnoreLists
    /\ nOut = nUrl
    /\ nOut2 = nUrl
    /\ nVar = nUrl
    /\ nVarKind = "none"
    /\ nVarOut = nUrl
    /\ nStage = "in"

\* result = normalizeUrl(url, ignoreParams)
NormApply ==
    /\ nStage = "in"
    /\ nOut' = normalizeUrl(nUrl, nIgn)
    /\ nStage' = "out"
    /\ UNCHANGED <<nUrl, nIgn, nOut2, nVar, nVarKind, nVarOut>>
    /\ UNCHANGED <<bgVars, pageVars>>

\* normalizeUrl(result, ignoreParams)
NormAgain ==
    /\ nStage = "out"
    /\ nOut2' = normalizeUrl(nOut, nIgn)
    /\ nStage' = "again"
    /\ UNCHANGED <<nUrl, nIgn, nOut, nVar, nVarKind, nVarOut>>
    /\ UNCHANGED <<bgVars, pageVars>>

\* normalizeUrl of the same URL with its parameters in another order
NormPermuted ==
    /\ nStage = "out"
    /\ \E w \in PermutedStrings(nUrl) :
          /\ nVar' = w
          /\ nVarOut' = normalizeUrl(w, nIgn)
    /\ nVarKind' = "perm"
    /\ nStage' = "variant"
    /\ UNCHANGED <<nUrl, nIgn, nOut, nOut2>>
    /\ UNCHANGED <<bgVars, pageVars>>

\* normalizeUrl of the same URL with another value in an ignored parameter
NormIgnoredValue ==
    /\ nStage = "out"
    /\ \E w \in IgnoredValueVariants(nUrl, nIgn) :
          /\ nVar' = w
          /\ nVarOut' = normalizeUrl(w, nIgn)
    /\ nVarKind' = "ignval"
    /\ nStage' = "variant"
    /\ UNCHANGED <<nUrl, nIgn, nOut, nOut2>>
    /\ UNCHANGED <<bgVars, pageVars>>

\* normalizeUrl of the same URL, which has no fragment, followed by "#" or by
\* "#top"
NormWithFragment ==
    /\ nStage = "out"
    /\ ~nUrl.hasF
    /\ \E f \in {"", "top"} :
          LET w == [nUrl EXCEPT !.hasF = TRUE, !.f = f] IN
          /\ nVar' = w
          /\ nVarOut' = normalizeUrl(w, nIgn)
    /\ nVarKind' = "frag"
    /\ nStage' = "variant"
    /\ UNCHANGED <<nUrl, nIgn, nOut, nOut2>>
    /\ UNCHANGED <<bgVars, pageVars>>

NormNext ==
    NormApply \/ NormAgain \/ NormPermuted \/ NormIgnoredValue
        \/ NormWithFragment

SpecNorm == NormInit /\ [][NormNext]_vars

(***************************************************************************)
(* Properties of normalizeUrl (checked under SpecNorm)                     *)
(***************************************************************************)
\* the pairs of a parsed list that carry the name n, in order
NamedPairs(l, n) == LET Named(p) == p.n = n IN SelectSeq(l, Named)

\* the parameters a written URL string carries
ParamsOf(url) == ParseQuery(url.q)

\* every run of same-named parameters is in the same order in both strings
SameNameOrderKept(u, w) ==
    \A n \in ParamNames : NamedPairs(ParamsOf(u), n) = NamedPairs(ParamsOf(w), n)

\* C2: normalizeUrl is idempotent: normalizing the result of normalizeUrl
\* again, under the same ignore list, gives that result, for every string
\* (http(s), other scheme, unparseable) and every ignore list.
C2_Idempotent == nStage = "again" => nOut2 = nOut

\* C2 witness: an http URL from which an ignored parameter was removed and
\* whose result was normalized a second time
C2_Witness ==
    /\ nStage = "again"
    /\ isValidHttpUrl(nUrl)
    /\ Len(ParamsOf(nOut)) < Len(ParamsOf(nUrl))
    /\ nOut # nUrl

\* C3 as stated: every permutation of the query parameters of an http(s) URL,
\* repeated names with different values included, normalizes to the same
\* string.
C3_AnyPermutation ==
    (nStage = "variant" /\ nVarKind = "perm" /\ isValidHttpUrl(nUrl))
        => nVarOut = nOut

\* C3 amended: every permutation of the query parameters of an http(s) URL
\* that keeps the relative order of the parameters sharing a name normalizes
\* to the same string.
C3_PermutationKeepingTies ==
    (nStage = "variant" /\ nVarKind = "perm" /\ isValidHttpUrl(nUrl)
     /\ SameNameOrderKept(nUrl, nVar))
        => nVarOut = nOut

\* C3 witness: the parameters of an http URL, one name occurring twice with
\* different values, were written in another order that keeps the two in
\* place, and both orders were normalized to the same string
C3_Witness ==
    /\ nStage = "variant" /\ nVarKind = "perm"
    /\ isValidHttpUrl(nUrl)
    /\ nVar # nUrl
    /\ SameNameOrderKept(nUrl, nVar)
    /\ \E i, j \in 1..Len(nUrl.q) :
          i # j /\ nUrl.q[i].n = nUrl.q[j].n /\ nUrl.q[i].v # nUrl.q[j].v
    /\ nVarOut = nOut

\* C4: from an http(s) URL normalizeUrl removes every parameter whose
\* lower-cased name is the lower-cased form of an ignore-list entry (every
\* occurrence, in any casing), keeps every other parameter with its values,
\* and the value of a removed parameter does not influence the result.
C4_IgnoredRemoved ==
    LET ign == {toLowerCase(nIgn[i]) : i \in 1..Len(nIgn)}
        inl == ParamsOf(nUrl)
        outl == ParamsOf(nOut)
    IN  /\ (nStage # "in" /\ isValidHttpUrl(nUrl)) =>
              /\ \A i \in 1..Len(outl) : toLowerCase(outl[i].n) \notin ign
              /\ \A n \in ParamNames :
                    toLowerCase(n) \notin ign =>
                        NamedPairs(outl, n) = NamedPairs(inl, n)
        /\ (nStage = "variant" /\ nVarKind = "ignval" /\ isValidHttpUrl(nUrl))
              => nVarOut = nOut

\* C4 witness: "UTM_Source" was removed under the entry "utm_source", another
\* parameter was kept, and the removed parameter's value was changed
C4_Witness ==
    /\ nStage = "variant" /\ nVarKind = "ignval"
    /\ isValidHttpUrl(nUrl)
    /\ nVar # nUrl
    /\ nIgn = <<"utm_source">>
    /\ \E i \in 1..Len(nUrl.q) : nUrl.q[i].n = "UTM_Source"
    /\ ParamsOf(nOut) # <<>>

\* C13: for an http(s) URL u without a fragment, normalizeUrl(u + "#", I)
\* equals normalizeUrl(u, I), while for the non-empty fragment f the result of
\* normalizeUrl(u + "#" + f, I) still ends with "#" + f and differs from
\* normalizeUrl(u, I).
C13_EmptyFragmentDropped ==
    (nStage = "variant" /\ nVarKind = "frag" /\ isValidHttpUrl(nUrl)) =>
        IF nVar.f = ""
        THEN nVarOut = nOut
        ELSE /\ nVarOut.hasF /\ nVarOut.f = nVar.f
             /\ nVarOut # nOut

\* the input does not parse as a URL, or its scheme is not http or https
NotHttpInput(url) ==
    URLThrows(url) \/ toLowerCase(url.sch) \notin {"http", "https"}

\* C14: normalizeUrl returns its input unchanged, and does not throw, when the
\* input does not parse as a URL or its scheme is not http/https, for
\* every ignore-set.
C14_OtherInputsUnchanged ==
    (nStage # "in" /\ NotHttpInput(nUrl)) => nOut = nUrl

\* an ftp URL with an ignored parameter, and a string that does not parse,
\* have been normalized
C14_Witness ==
    /\ nStage = "out"
    /\ NotHttpInput(nUrl)
    /\ nIgn = <<"utm_source">>
    /\ \E i \in 1..Len(nUrl.q) : nUrl.q[i].n = "utm_source"
    /\ nOut = nUrl

====
